---- MODULE Spec2Model ----
(***************************************************************************)
(* Model of the Time Warp core of dcb.rs: the RollbackManager              *)
(* (src/src/rollback_manager.rs), the priority MessageQueue                *)
(* (src/src/message_queue.rs) and the execution loop                       *)
(* (src/src/consume_msg_queue.rs).                                         *)
(***************************************************************************)
EXTENDS Integers, Sequences, FiniteSets, TLC

\* ------------------------------------------------------------------ bounds
\* Timestamps range over 0..MaxTs.
MaxTs == 2
\* The manager's two message lists hold at most MaxLen messages together.
MaxLen == 2

\* ------------------------------------------------------------- data model
\* The component that owns the manager, and two other components.
Self == 1
Other == 2
Third == 3

Timestamps == 0 .. MaxTs

\* models.rs: struct Message (path is carried along untouched and left out).
Msg(f, t, s, e, i, p, a) ==
  [from |-> f, to |-> t, sent_ts |-> s, exec_ts |-> e, id |-> i,
   payload |-> p, is_anti |-> a]

NoMsg == Msg(0, 0, 0, 0, 0, "", FALSE)

\* models.rs: Message::is_inverse_of
is_inverse_of(a, b) ==
  /\ a.sent_ts = b.sent_ts
  /\ a.exec_ts = b.exec_ts
  /\ a.from = b.from
  /\ a.to = b.to
  /\ a.id = b.id
  /\ a.is_anti # b.is_anti

\* Variant of get_anti that clears the payload of the twin.
get_anti_clears_payload(m) ==
  IF m.is_anti THEN [ok |-> FALSE, msg |-> m]
  ELSE [ok |-> TRUE, msg |-> [m EXCEPT !.is_anti = TRUE, !.payload = ""]]

\* models.rs: Message::get_anti (Err(()) for an anti-message, else a clone
\* with is_anti set).
get_anti(m) ==
  IF m.is_anti THEN [ok |-> FALSE, msg |-> m]
  ELSE [ok |-> TRUE, msg |-> [m EXCEPT !.is_anti = TRUE]]

\* models.rs: struct Checkpoint
Checkpoint(ts, st) == [timestamp |-> ts, state |-> st]

Last(s) == s[Len(s)]
Front(s) == SubSeq(s, 1, Len(s) - 1)
Range(s) == {s[i] : i \in 1 .. Len(s)}

\* ------------------------------------------------------- RollbackManager
\* Variant of new that starts without the genesis checkpoint.
new_without_checkpoint(id, initial_state) ==
  [state |-> initial_state,
   lvt |-> 0,
   id |-> id,
   checkpoints |-> <<>>,
   received_messages |-> <<>>,
   sent_messages |-> <<>>]

\* rollback_manager.rs: RollbackManager::new
new(id, initial_state) ==
  [state |-> initial_state,
   lvt |-> 0,
   id |-> id,
   checkpoints |-> <<Checkpoint(0, initial_state)>>,
   received_messages |-> <<>>,
   sent_messages |-> <<>>]

\* Variant of save_message that stores anti-messages too.
save_message_accepts_anti(m, msg) ==
  IF msg.from # m.id /\ msg.to # m.id
  THEN [res |-> "InvalidMessage", mgr |-> m]
  ELSE IF msg.from = m.id
  THEN IF m.sent_messages # <<>> /\ Last(m.sent_messages).sent_ts > msg.sent_ts
       THEN [res |-> "TimeViolation", mgr |-> m]
       ELSE [res |-> "Ok",
             mgr |-> [m EXCEPT !.sent_messages = Append(@, msg)]]
  ELSE IF m.received_messages # <<>>
          /\ Last(m.received_messages).exec_ts > msg.exec_ts
       THEN [res |-> "TimeViolation", mgr |-> m]
       ELSE [res |-> "Ok",
             mgr |-> [m EXCEPT !.received_messages = Append(@, msg)]]

\* Variant of save_message that rejects anti-messages only.
save_message_accepts_foreign(m, msg) ==
  IF msg.is_anti
  THEN [res |-> "InvalidMessage", mgr |-> m]
  ELSE IF msg.from = m.id
  THEN IF m.sent_messages # <<>> /\ Last(m.sent_messages).sent_ts > msg.sent_ts
       THEN [res |-> "TimeViolation", mgr |-> m]
       ELSE [res |-> "Ok",
             mgr |-> [m EXCEPT !.sent_messages = Append(@, msg)]]
  ELSE IF m.received_messages # <<>>
          /\ Last(m.received_messages).exec_ts > msg.exec_ts
       THEN [res |-> "TimeViolation", mgr |-> m]
       ELSE [res |-> "Ok",
             mgr |-> [m EXCEPT !.received_messages = Append(@, msg)]]

\* Variant of save_message that also rejects a sent message whose sent_ts
\* equals that of the last one.
save_message_sent_ge(m, msg) ==
  IF (msg.from # m.id /\ msg.to # m.id) \/ msg.is_anti
  THEN [res |-> "InvalidMessage", mgr |-> m]
  ELSE IF msg.from = m.id
  THEN IF m.sent_messages # <<>>
          /\ Last(m.sent_messages).sent_ts >= msg.sent_ts
       THEN [res |-> "TimeViolation", mgr |-> m]
       ELSE [res |-> "Ok",
             mgr |-> [m EXCEPT !.sent_messages = Append(@, msg)]]
  ELSE IF m.received_messages # <<>>
          /\ Last(m.received_messages).exec_ts > msg.exec_ts
       THEN [res |-> "TimeViolation", mgr |-> m]
       ELSE [res |-> "Ok",
             mgr |-> [m EXCEPT !.received_messages = Append(@, msg)]]

\* Variant of save_message that picks the list by msg.to, so that a
\* self-addressed message lands in received_messages.
save_message_by_to(m, msg) ==
  IF (msg.from # m.id /\ msg.to # m.id) \/ msg.is_anti
  THEN [res |-> "InvalidMessage", mgr |-> m]
  ELSE IF msg.to # m.id
  THEN IF m.sent_messages # <<>> /\ Last(m.sent_messages).sent_ts > msg.sent_ts
       THEN [res |-> "TimeViolation", mgr |-> m]
       ELSE [res |-> "Ok",
             mgr |-> [m EXCEPT !.sent_messages = Append(@, msg)]]
  ELSE IF m.received_messages # <<>>
          /\ Last(m.received_messages).exec_ts > msg.exec_ts
       THEN [res |-> "TimeViolation", mgr |-> m]
       ELSE [res |-> "Ok",
             mgr |-> [m EXCEPT !.received_messages = Append(@, msg)]]

\* Variant of save_message that appends without looking at the order.
save_message_unordered(m, msg) ==
  IF (msg.from # m.id /\ msg.to # m.id) \/ msg.is_anti
  THEN [res |-> "InvalidMessage", mgr |-> m]
  ELSE IF msg.from = m.id
  THEN [res |-> "Ok", mgr |-> [m EXCEPT !.sent_messages = Append(@, msg)]]
  ELSE [res |-> "Ok", mgr |-> [m EXCEPT !.received_messages = Append(@, msg)]]

\* rollback_manager.rs: RollbackManager::save_message
save_message(m, msg) ==
  IF (msg.from # m.id /\ msg.to # m.id) \/ msg.is_anti
  THEN [res |-> "InvalidMessage", mgr |-> m]
  ELSE IF msg.from = m.id
  THEN IF m.sent_messages # <<>> /\ Last(m.sent_messages).sent_ts > msg.sent_ts
       THEN [res |-> "TimeViolation", mgr |-> m]
       ELSE [res |-> "Ok",
             mgr |-> [m EXCEPT !.sent_messages = Append(@, msg)]]
  ELSE IF m.received_messages # <<>>
          /\ Last(m.received_messages).exec_ts > msg.exec_ts
       THEN [res |-> "TimeViolation", mgr |-> m]
       ELSE [res |-> "Ok",
             mgr |-> [m EXCEPT !.received_messages = Append(@, msg)]]

\* Variant of DropCheckpoints that also drops the checkpoint taken at ts.
RECURSIVE DropCheckpoints_ge(_, _)
DropCheckpoints_ge(cps, ts) ==
  IF cps = <<>> THEN [panic |-> TRUE, cps |-> cps]
  ELSE IF Last(cps).timestamp >= ts THEN DropCheckpoints_ge(Front(cps), ts)
  ELSE [panic |-> FALSE, cps |-> cps]

\* rollback: the loop that pops trailing checkpoints (lines 121-134).  The
\* result is the retained list; panic is set when the list runs empty.
RECURSIVE DropCheckpoints(_, _)
DropCheckpoints(cps, ts) ==
  IF cps = <<>> THEN [panic |-> TRUE, cps |-> cps]
  ELSE IF Last(cps).timestamp > ts THEN DropCheckpoints(Front(cps), ts)
  ELSE [panic |-> FALSE, cps |-> cps]

\* Variant of KeepReceived that retains the messages with exec_ts = ts.
RECURSIVE KeepReceived_le(_, _)
KeepReceived_le(rm, ts) ==
  IF rm = <<>> THEN rm
  ELSE IF Last(rm).exec_ts <= ts THEN rm
  ELSE KeepReceived_le(Front(rm), ts)

\* rollback: the loop over the tail of received_messages (lines 136-141);
\* the result is the retained prefix.
RECURSIVE KeepReceived(_, _)
KeepReceived(rm, ts) ==
  IF rm = <<>> THEN rm
  ELSE IF Last(rm).exec_ts < ts THEN rm
  ELSE KeepReceived(Front(rm), ts)

\* Variant of KeepSent that retains the messages with sent_ts = ts.
RECURSIVE KeepSent_le(_, _)
KeepSent_le(sm, ts) ==
  IF sm = <<>> THEN sm
  ELSE IF Last(sm).sent_ts <= ts THEN sm
  ELSE KeepSent_le(Front(sm), ts)

\* rollback: the loop over the tail of sent_messages (lines 143-150); the
\* result is the retained prefix.
RECURSIVE KeepSent(_, _)
KeepSent(sm, ts) ==
  IF sm = <<>> THEN sm
  ELSE IF Last(sm).sent_ts < ts THEN sm
  ELSE KeepSent(Front(sm), ts)

\* Variant of MakeAnti that clears the payload.
MakeAnti_clears_payload(msg) == [msg EXCEPT !.is_anti = TRUE, !.payload = ""]

\* rollback line 148: the popped sent message with is_anti set.
MakeAnti(msg) == [msg EXCEPT !.is_anti = TRUE]

\* The elements of s after its prefix keep.
Popped(s, keep) == {s[i] : i \in Len(keep) + 1 .. Len(s)}

\* rollback lines 108-110: the target lies in the future.
RollbackTimeViolation(m, ts) == ts > m.lvt

\* Variant of RollbackInsufficient that lets every target through.
RollbackInsufficient_never(m, ts) == FALSE

\* Variant of RollbackInsufficient that also rejects a first checkpoint
\* taken exactly at ts.
RollbackInsufficient_ge(m, ts) ==
  m.checkpoints = <<>> \/ m.checkpoints[1].timestamp >= ts

\* rollback lines 112-119: no checkpoint at or before the target.
RollbackInsufficient(m, ts) ==
  m.checkpoints = <<>> \/ m.checkpoints[1].timestamp > ts

\* Variant of RollbackBody that keeps the state the manager had before the
\* call.
RollbackBody_keeps_state(m, ts) ==
    LET d == DropCheckpoints(m.checkpoints, ts)
        kr == KeepReceived(m.received_messages, ts)
        ks == KeepSent(m.sent_messages, ts)
    IN IF d.panic
       THEN [res |-> "Panic", mgr |-> [m EXCEPT !.checkpoints = d.cps],
             ret |-> {}]
       ELSE [res |-> "Ok",
             mgr |-> [m EXCEPT !.checkpoints = d.cps,
                               !.lvt = Last(d.cps).timestamp,
                               !.received_messages = kr,
                               !.sent_messages = ks],
             ret |-> Popped(m.received_messages, kr)
                     \cup {MakeAnti(x) : x \in Popped(m.sent_messages, ks)}]

\* The part of rollback that runs once both checks passed (lines 121-152).
RollbackBody(m, ts) ==
    LET d == DropCheckpoints(m.checkpoints, ts)
        kr == KeepReceived(m.received_messages, ts)
        ks == KeepSent(m.sent_messages, ts)
    IN IF d.panic
       THEN [res |-> "Panic", mgr |-> [m EXCEPT !.checkpoints = d.cps],
             ret |-> {}]
       ELSE [res |-> "Ok",
             mgr |-> [m EXCEPT !.checkpoints = d.cps,
                               !.lvt = Last(d.cps).timestamp,
                               !.state = Last(d.cps).state,
                               !.received_messages = kr,
                               !.sent_messages = ks],
             ret |-> Popped(m.received_messages, kr)
                     \cup {MakeAnti(x) : x \in Popped(m.sent_messages, ks)}]

\* Variant of rollback that looks at the checkpoints before the target.
rollback_checkpoints_first(m, ts) ==
  IF RollbackInsufficient(m, ts)
  THEN [res |-> "InsufficientCheckpoints", mgr |-> m, ret |-> {}]
  ELSE IF RollbackTimeViolation(m, ts)
  THEN [res |-> "TimeViolation", mgr |-> m, ret |-> {}]
  ELSE RollbackBody(m, ts)

\* rollback_manager.rs: RollbackManager::rollback
rollback(m, ts) ==
  IF RollbackTimeViolation(m, ts)
  THEN [res |-> "TimeViolation", mgr |-> m, ret |-> {}]
  ELSE IF RollbackInsufficient(m, ts)
  THEN [res |-> "InsufficientCheckpoints", mgr |-> m, ret |-> {}]
  ELSE RollbackBody(m, ts)

\* Variant of FreeCheckpoints that keeps the checkpoint taken at ts.
RECURSIVE FreeCheckpoints_lt(_, _)
FreeCheckpoints_lt(cps, ts) ==
  IF cps = <<>> THEN cps
  ELSE IF cps[1].timestamp >= ts THEN cps
  ELSE FreeCheckpoints_lt(Tail(cps), ts)

\* free: the three loops that pop from the head (lines 162-181).
RECURSIVE FreeCheckpoints(_, _)
FreeCheckpoints(cps, ts) ==
  IF cps = <<>> THEN cps
  ELSE IF cps[1].timestamp > ts THEN cps
  ELSE FreeCheckpoints(Tail(cps), ts)

\* Variant of FreeReceived that keeps the messages with exec_ts = ts.
RECURSIVE FreeReceived_lt(_, _)
FreeReceived_lt(rm, ts) ==
  IF rm = <<>> THEN rm
  ELSE IF rm[1].exec_ts >= ts THEN rm
  ELSE FreeReceived_lt(Tail(rm), ts)

RECURSIVE FreeReceived(_, _)
FreeReceived(rm, ts) ==
  IF rm = <<>> THEN rm
  ELSE IF rm[1].exec_ts > ts THEN rm
  ELSE FreeReceived(Tail(rm), ts)

RECURSIVE FreeSent(_, _)
FreeSent(sm, ts) ==
  IF sm = <<>> THEN sm
  ELSE IF sm[1].sent_ts > ts THEN sm
  ELSE FreeSent(Tail(sm), ts)

\* rollback_manager.rs: RollbackManager::free
free(m, ts) ==
  [m EXCEPT !.checkpoints = FreeCheckpoints(@, ts),
            !.received_messages = FreeReceived(@, ts),
            !.sent_messages = FreeSent(@, ts)]

\* Variant of take_checkpoint that stamps the checkpoint with the lvt
\* before the increment.
take_checkpoint_stamps_old_lvt(m) ==
  [m EXCEPT !.lvt = m.lvt + 1,
            !.checkpoints = Append(@, Checkpoint(m.lvt, m.state))]

\* Variant of take_checkpoint that leaves lvt alone.
take_checkpoint_keeps_lvt(m) ==
  [m EXCEPT !.checkpoints = Append(@, Checkpoint(m.lvt, m.state))]

\* rollback_manager.rs: RollbackManager::take_checkpoint (lvt += 1, then the
\* checkpoint is pushed with the incremented lvt).
take_checkpoint(m) ==
  [m EXCEPT !.lvt = m.lvt + 1,
            !.checkpoints = Append(@, Checkpoint(m.lvt + 1, m.state))]

\* Variant of update that also rejects lvt equal to the current one.
update_le(m, st, lvt) ==
  IF lvt <= m.lvt THEN [res |-> "TimeViolation", mgr |-> m]
  ELSE [res |-> "Ok", mgr |-> [m EXCEPT !.state = st, !.lvt = lvt]]

\* Variant of update that stores the state and leaves lvt alone.
update_keeps_lvt(m, st, lvt) ==
  IF lvt < m.lvt THEN [res |-> "TimeViolation", mgr |-> m]
  ELSE [res |-> "Ok", mgr |-> [m EXCEPT !.state = st]]

\* Variant of update that accepts every lvt.
update_unchecked(m, st, lvt) ==
  [res |-> "Ok", mgr |-> [m EXCEPT !.state = st, !.lvt = lvt]]

\* rollback_manager.rs: RollbackManager::update
update(m, st, lvt) ==
  IF lvt < m.lvt THEN [res |-> "TimeViolation", mgr |-> m]
  ELSE [res |-> "Ok", mgr |-> [m EXCEPT !.state = st, !.lvt = lvt]]

\* rollback_manager.rs: RollbackManager::get_sent_messages
get_sent_messages(m) == m.sent_messages

\* rollback_manager.rs: RollbackManager::get_received_messages (the body
\* reads self.sent_messages).
get_received_messages(m) == m.sent_messages

\* ------------------------------------------------- inputs of the manager
InitialState == 0
AppStates == {1}

\* Messages handed to save_message: received (Other -> Self), sent
\* (Self -> Other), self-addressed, foreign, and anti-messages.
ApiMsgs ==
  {Msg(Other, Self, 0, e, 7, "", FALSE) : e \in Timestamps}
  \cup {Msg(Self, Other, s, MaxTs, 8, "p", FALSE) : s \in Timestamps \ {1}}
  \cup {Msg(Self, Self, 1, 0, 9, "", FALSE),
        Msg(Other, Third, 0, 1, 7, "p", FALSE),
        Msg(Other, Self, 0, 1, 7, "p", TRUE),
        Msg(Self, Other, 1, MaxTs, 8, "p", TRUE)}

\* ----------------------------------------------------------- MessageQueue
\* message_queue.rs: impl Ord for Message compares Reverse(exec_ts), so the
\* vec is kept in descending exec_ts order and its last element is the
\* message with the smallest exec_ts.
OrdLess(a, b) == a.exec_ts > b.exec_ts
OrdEqual(a, b) == a.exec_ts = b.exec_ts

InsertAt(vec, i, msg) ==
  SubSeq(vec, 1, i - 1) \o <<msg>> \o SubSeq(vec, i, Len(vec))

RemoveAt(vec, i) == SubSeq(vec, 1, i - 1) \o SubSeq(vec, i + 1, Len(vec))

\* push lines 31-35: the index of the first element that is the inverse of
\* msg, 0 when there is none.
FindInverse(vec, msg) ==
  IF \E i \in DOMAIN vec : is_inverse_of(msg, vec[i])
  THEN CHOOSE i \in DOMAIN vec :
         /\ is_inverse_of(msg, vec[i])
         /\ \A j \in 1 .. i - 1 : ~is_inverse_of(msg, vec[j])
  ELSE 0

\* Variant of BinarySearch that always answers the front of the vec.
BinarySearch_front(vec, msg) == {1}

\* push lines 41-44: the indices binary_search may return on the sorted vec:
\* the index of any element equal to msg under Ord, else the one insertion
\* point that keeps the order.
BinarySearch(vec, msg) ==
  IF \E i \in DOMAIN vec : OrdEqual(vec[i], msg)
  THEN {i \in DOMAIN vec : OrdEqual(vec[i], msg)}
  ELSE {Cardinality({i \in DOMAIN vec : OrdLess(vec[i], msg)}) + 1}

\* Variant of QueuePush that never annihilates.
QueuePush_no_annihilation(vec, msg) ==
  {InsertAt(vec, i, msg) : i \in BinarySearch(vec, msg)}

\* message_queue.rs: MessageQueue::push, the set of vecs it may leave.
QueuePush(vec, msg) ==
  IF FindInverse(vec, msg) # 0
  THEN {RemoveAt(vec, FindInverse(vec, msg))}
  ELSE {InsertAt(vec, i, msg) : i \in BinarySearch(vec, msg)}

\* Variant of QueuePop that takes the first element of the vec.
QueuePop_front(vec) == [msg |-> Head(vec), vec |-> Tail(vec)]

\* message_queue.rs: MessageQueue::pop takes the last element of the vec.
QueuePop(vec) == [msg |-> Last(vec), vec |-> Front(vec)]

\* ------------------------------------------------- Messenger and Gateway
\* messenger.rs: Messenger::send hands the message to the channel of a
\* locally hosted destination, else to the network channel.
LocalIds == {Self}

Send(ch, msg) ==
  IF msg.to \in LocalIds
  THEN [chan |-> Append(ch.chan, msg), net |-> ch.net]
  ELSE [chan |-> ch.chan, net |-> Append(ch.net, msg)]

RECURSIVE SendAll(_, _)
SendAll(ch, msgs) ==
  IF msgs = <<>> THEN ch ELSE SendAll(Send(ch, Head(msgs)), Tail(msgs))

\* The orders in which the loop may iterate over a HashSet<Message>.
IterationOrders(set) ==
  {order \in [1 .. Cardinality(set) -> set] : Range(order) = set}

\* translator.rs: the routing table of the Translator.
RouteToDest(route) == IF route = "self" THEN Self ELSE Other

\* translator.rs: Translator::translate (every message gets id 0).
translate(core, sent_ts) ==
  Msg(Self, RouteToDest(core.route), sent_ts, core.exec_ts, 0,
      core.payload, FALSE)

\* component.rs: a user component.  Its state is the list of the ids of the
\* messages it was given; a message with payload "fwd" makes it emit one
\* message to the other component, one with payload "self" one message to
\* itself, both due one tick later.
ComponentInit == [state |-> <<>>, msgs |-> <<>>]

ComponentOnMessage(state, msg) ==
  [state |-> Append(state, msg.id),
   msgs |-> IF msg.payload = "fwd"
            THEN <<[route |-> "other", payload |-> "out",
                    exec_ts |-> msg.exec_ts + 1]>>
            ELSE IF msg.payload = "self"
            THEN <<[route |-> "self", payload |-> "",
                    exec_ts |-> msg.exec_ts + 1]>>
            ELSE <<>>]

MapTranslate(cores, sent_ts) ==
  [i \in DOMAIN cores |-> translate(cores[i], sent_ts)]

\* translator.rs: Gateway::init for Translator
gateway_init ==
  [state |-> ComponentInit.state,
   msgs |-> MapTranslate(ComponentInit.msgs, 0)]

\* translator.rs: Gateway::on_message for Translator
on_message(state, message) ==
  LET r == ComponentOnMessage(state, message)
  IN [state |-> r.state, msgs |-> MapTranslate(r.msgs, message.exec_ts)]

\* consume_msg_queue lines 48-51: every output is saved and then sent; the
\* loop stops at the first save_message that fails.
RECURSIVE SaveAndSend(_, _, _)
SaveAndSend(m, ch, msgs) ==
  IF msgs = <<>> THEN [ok |-> TRUE, res |-> "Ok", mgr |-> m, ch |-> ch]
  ELSE LET s == save_message(m, Head(msgs))
       IN IF s.res # "Ok"
          THEN [ok |-> FALSE, res |-> s.res, mgr |-> m, ch |-> ch]
          ELSE SaveAndSend(s.mgr, Send(ch, Head(msgs)), Tail(msgs))

\* ------------------------------------------ inputs of the execution loop
\* The loop handles at most MaxLog messages.
MaxLog == 5

\* The messages other components send to this one: an early one, a late
\* one that makes the component emit a message, and one that makes the
\* component send a message to itself.
Early == Msg(Other, Self, 0, 1, 1, "", FALSE)
Late == Msg(Other, Self, 0, 2, 2, "fwd", FALSE)
Echo == Msg(Other, Self, 1, 1, 3, "self", FALSE)
Pool == {Early, Late, Echo}

\* The messages their sender may retract later.
Retractable == {Early}

\* -------------------------------------------- inputs of the Translator
\* The Translator produces at most MaxOut messages.
MaxOut == 2

\* What a user component may return: a route, a payload and an exec_ts.
Cores ==
  [route : {"self", "other"}, payload : {"x", "y"}, exec_ts : 1 .. MaxTs]

\* The lists of outputs of one call of the component.
CoreLists == {<<c>> : c \in Cores} \cup {<<c, d>> : c, d \in Cores}

\* ------------------------------------------------- DependencyVector
Max(a, b) == IF a >= b THEN a ELSE b

\* dependency_vector.rs: DependencyVector::new
DependencyVector_new(self_id, components) ==
  [id |-> self_id,
   map |-> [c \in {self_id} \cup Range(components) |-> 0]]

\* dependency_vector.rs: DependencyVector::set_self_ts
set_self_ts(dv, ts) ==
  IF ts < dv.map[dv.id] THEN [res |-> "Err", dv |-> dv]
  ELSE [res |-> "Ok", dv |-> [dv EXCEPT !.map[dv.id] = ts]]

\* Variant of DependencyVector_update that takes the received entry of
\* another component even when it is the smaller one.
DependencyVector_update_overwrites(dv, map) ==
  IF dv.id \in DOMAIN map /\ map[dv.id] > dv.map[dv.id]
  THEN [res |-> "Err", dv |-> dv]
  ELSE [res |-> "Ok",
        dv |-> [dv EXCEPT !.map =
                  [id \in DOMAIN dv.map |->
                     IF id # dv.id /\ id \in DOMAIN map
                     THEN map[id] ELSE dv.map[id]]]]

\* dependency_vector.rs: DependencyVector::update
DependencyVector_update(dv, map) ==
  IF dv.id \in DOMAIN map /\ map[dv.id] > dv.map[dv.id]
  THEN [res |-> "Err", dv |-> dv]
  ELSE [res |-> "Ok",
        dv |-> [dv EXCEPT !.map =
                  [id \in DOMAIN dv.map |->
                     IF id # dv.id /\ id \in DOMAIN map
                     THEN Max(dv.map[id], map[id]) ELSE dv.map[id]]]]

\* The vectors a component may receive: any entries for any components,
\* one of which (Third) the local vector does not know.
ReceivedVectors ==
  UNION {[ids -> Timestamps] : ids \in SUBSET {Self, Other, Third}}

\* A received vector as the set of its entries.
Entries(map) == {<<id, map[id]>> : id \in DOMAIN map}

\* ------------------------------------------ inputs of the MessageQueue
\* The queue holds at most MaxQueue messages.
MaxQueue == 3

\* Two messages that differ in payload only (the Translator gives every
\* message id 0), one that shares their exec_ts, a later one, and the
\* anti-messages of three of them.
QA == Msg(Other, Self, 0, 1, 0, "a", FALSE)
QA2 == Msg(Other, Self, 0, 1, 0, "b", FALSE)
QB == Msg(Other, Self, 0, 1, 5, "", FALSE)
QC == Msg(Third, Self, 0, 2, 6, "", FALSE)
QPositive == {QA, QA2, QB, QC}
QMsgs == QPositive \cup {MakeAnti(QA), MakeAnti(QA2), MakeAnti(QC)}

\* ------------------------------------- inputs of the thread-safe queue
\* The producer threads and the messages each pushes, in order: one pushes
\* a message and later retracts it, the other pushes two messages.
Producers == {"p1", "p2"}

SyncA == Msg(Other, Self, 0, 2, 1, "a", FALSE)
SyncB == Msg(Third, Self, 0, 1, 2, "b", FALSE)
SyncC == Msg(Third, Self, 1, 2, 3, "c", FALSE)

Script ==
  [p \in Producers |->
     IF p = "p1" THEN <<SyncA, MakeAnti(SyncA)>> ELSE <<SyncB, SyncC>>]

\* --------------------------------------------- inputs of the Messenger
\* The components hosted in this process; Third is hosted elsewhere.
Hosted == {Self, Other}

\* The messages handed to the Messenger, at most MaxSent of them buffered
\* at a time: one per destination, and an anti-message for a remote one.
MaxSent == 3

ToSelf == Msg(Other, Self, 0, 1, 1, "a", FALSE)
ToOther == Msg(Self, Other, 0, 1, 2, "b", FALSE)
ToThird == Msg(Self, Third, 0, 1, 3, "c", FALSE)
SentMsgs == {ToSelf, ToOther, ToThird, MakeAnti(ToThird)}

\* std::sync::mpsc: a channel is what was sent and not yet received, and
\* whether its Receiver is still alive.
Channel == [buf |-> <<>>, open |-> TRUE]

\* Sender::send: Err(SendError(msg)) once the Receiver is gone, else the
\* message is appended.
ChannelSend(ch, msg) ==
  IF ch.open
  THEN [res |-> "Ok", ch |-> [ch EXCEPT !.buf = Append(@, msg)]]
  ELSE [res |-> "Err", ch |-> ch]

\* messenger.rs: Messenger::send, `?` returning the channel's error.
send(ms, msg) ==
  IF msg.to \in DOMAIN ms.local_senders
  THEN LET r == ChannelSend(ms.local_senders[msg.to], msg)
       IN  [res |-> r.res,
            ms |-> [ms EXCEPT !.local_senders[msg.to] = r.ch]]
  ELSE LET r == ChannelSend(ms.network_sender, msg)
       IN  [res |-> r.res, ms |-> [ms EXCEPT !.network_sender = r.ch]]

\* A send_local that falls back to the network like send.
send_local_falls_back(ms, msg) == send(ms, msg)

\* messenger.rs: Messenger::send_local, Err(SendError(msg)) for a
\* destination without a local channel.
send_local(ms, msg) ==
  IF msg.to \in DOMAIN ms.local_senders
  THEN LET r == ChannelSend(ms.local_senders[msg.to], msg)
       IN  [res |-> r.res,
            ms |-> [ms EXCEPT !.local_senders[msg.to] = r.ch]]
  ELSE [res |-> "Err", ms |-> ms]

\* ------------------------------------------------------------------ state
VARIABLES
  mgr,            \* the RollbackManager
  last,           \* the last manager call: operation, arguments, result
  current_state,  \* consume_msg_queue: the loop's current_state
  received,       \* consume_msg_queue: the message popped last
  pc,             \* consume_msg_queue: where the loop stands
  queue,          \* the vec of the component's MessageQueue
  chan,           \* the component's channel (Messenger.local_senders)
  net,            \* the network channel (Messenger.network_sender)
  posted,         \* the messages other components have sent so far
  log,            \* the messages handed to gateway.on_message, in order
  annihilated,    \* the messages that met their anti twin in the queue
  freed,          \* the checkpoints and messages free has removed so far
  mutex,          \* MsgQueue.queue: the thread that holds the Mutex
  consumer,       \* MsgQueue::pop: where the consumer thread stands
  producers,      \* MsgQueue::push: where each producer thread stands
  local_senders,  \* Messenger.local_senders: one channel per hosted id
  network_sender, \* Messenger.network_sender: the egress channel
  dvec            \* the DependencyVector of the component

loopVars ==
  <<current_state, received, pc, queue, chan, net, posted, log, annihilated>>

extVars ==
  <<freed, mutex, consumer, producers, local_senders, network_sender, dvec>>

vars == <<mgr, last, loopVars, extVars>>

Call(op, res, msg, ts, ret) ==
  [op |-> op, res |-> res, msg |-> msg, ts |-> ts, ret |-> ret]

\* The loop before its first pop (consume_msg_queue lines 16-22).
LoopStart ==
  /\ current_state = gateway_init.state
  /\ received = NoMsg
  /\ pc = "pop"
  /\ queue = <<>>
  /\ chan = SendAll([chan |-> <<>>, net |-> <<>>], gateway_init.msgs).chan
  /\ net = SendAll([chan |-> <<>>, net |-> <<>>], gateway_init.msgs).net
  /\ posted = {}
  /\ log = <<>>
  /\ annihilated = {}

\* Nothing freed yet, the Mutex unlocked, every thread before its first
\* call, every channel empty.
ExtStart ==
  /\ freed = [checkpoints |-> {}, messages |-> {}]
  /\ mutex = "free"
  /\ consumer = "idle"
  /\ producers = [p \in Producers |-> [pc |-> "idle", todo |-> Script[p]]]
  /\ local_senders = [id \in Hosted |-> Channel]
  /\ network_sender = Channel
  /\ dvec = DependencyVector_new(Self, <<Self, Other>>)

\* ---------------------------------------------- the manager on its own
Init ==
  /\ mgr = new(Self, InitialState)
  /\ last = Call("new", "Ok", NoMsg, 0, {})
  /\ LoopStart
  /\ ExtStart

SaveMessage ==
  \E msg \in ApiMsgs :
    /\ Len(mgr.sent_messages) + Len(mgr.received_messages) < MaxLen
    /\ LET r == save_message(mgr, msg)
       IN /\ mgr' = r.mgr
          /\ last' = Call("save_message", r.res, msg, 0, {})
    /\ UNCHANGED <<loopVars, extVars>>

Rollback ==
  \E ts \in Timestamps :
    /\ LET r == rollback(mgr, ts)
       IN /\ mgr' = r.mgr
          /\ last' = Call("rollback", r.res, NoMsg, ts, r.ret)
    /\ UNCHANGED <<loopVars, extVars>>

Free ==
  \E ts \in Timestamps :
    /\ mgr' = free(mgr, ts)
    /\ last' = Call("free", "Ok", NoMsg, ts, {})
    /\ UNCHANGED <<loopVars, extVars>>

TakeCheckpoint ==
  /\ mgr.lvt < MaxTs
  /\ mgr' = take_checkpoint(mgr)
  /\ last' = Call("take_checkpoint", "Ok", NoMsg, 0, {})
  /\ UNCHANGED <<loopVars, extVars>>

Update ==
  \E st \in AppStates, t \in Timestamps :
    /\ LET r == update(mgr, st, t)
       IN /\ mgr' = r.mgr
          /\ last' = Call("update", r.res, NoMsg, t, {st})
    /\ UNCHANGED <<loopVars, extVars>>

\* Messages handed to get_anti: with and without payload, and an anti one.
AntiInputs ==
  {Msg(Other, Self, 0, 1, 7, "p", FALSE),
   Msg(Self, Self, 1, 0, 9, "", FALSE),
   Msg(Other, Self, 0, 1, 7, "p", TRUE)}

\* A positive message is negated with Message::get_anti.
GetAnti ==
  \E msg \in AntiInputs :
    /\ LET r == get_anti(msg)
       IN last' = Call("get_anti", IF r.ok THEN "Ok" ELSE "Err", msg, 0,
                       IF r.ok THEN {r.msg} ELSE {})
    /\ UNCHANGED <<mgr, loopVars, extVars>>

Next ==
  SaveMessage \/ Rollback \/ Free \/ TakeCheckpoint \/ Update \/ GetAnti

Spec == Init /\ [][Next]_vars

\* ------------------------------------------------------ the Translator
translatorOther ==
  <<mgr, last, current_state, received, pc, queue, posted, log, annihilated,
    extVars>>

\* translator.rs Gateway::init: the component's first outputs are
\* translated with sent_ts 0 and sent (consume_msg_queue lines 16-19).
TranslatorInit ==
  \E cores \in CoreLists :
    /\ chan = <<>> /\ net = <<>>
    /\ Len(cores) <= MaxOut
    /\ LET ch == SendAll([chan |-> chan, net |-> net],
                         MapTranslate(cores, 0))
       IN chan' = ch.chan /\ net' = ch.net
    /\ UNCHANGED translatorOther

\* translator.rs Gateway::on_message: the outputs of one call of the
\* component are translated with the exec_ts of the message that caused
\* them, and sent (consume_msg_queue lines 48-51).
TranslatorOnMessage ==
  \E message \in Pool, cores \in CoreLists :
    /\ Len(chan) + Len(net) + Len(cores) <= MaxOut
    /\ LET ch == SendAll([chan |-> chan, net |-> net],
                         MapTranslate(cores, message.exec_ts))
       IN chan' = ch.chan /\ net' = ch.net
    /\ UNCHANGED translatorOther

TranslatorNext == TranslatorInit \/ TranslatorOnMessage

TranslatorSpec == Init /\ [][TranslatorNext]_vars

\* ------------------------------------------------ the DependencyVector
dvecOther == <<mgr, loopVars, freed, mutex, consumer, producers,
               local_senders, network_sender>>

SetSelfTs ==
  \E ts \in Timestamps :
    LET r == set_self_ts(dvec, ts)
    IN  /\ dvec' = r.dv
        /\ last' = Call("set_self_ts", r.res, NoMsg, ts, {})
        /\ UNCHANGED dvecOther

DvUpdate ==
  \E map \in ReceivedVectors :
    LET r == DependencyVector_update(dvec, map)
    IN  /\ dvec' = r.dv
        /\ last' = Call("dv_update", r.res, NoMsg, 0, Entries(map))
        /\ UNCHANGED dvecOther

DvNext == SetSelfTs \/ DvUpdate

DvSpec == Init /\ [][DvNext]_vars

\* ------------------------------------- the manager and its accessors
GetSentMessages ==
  /\ last' = Call("get_sent_messages", "Ok", NoMsg, 0,
                  Range(get_sent_messages(mgr)))
  /\ UNCHANGED <<mgr, loopVars, extVars>>

GetReceivedMessages ==
  /\ last' = Call("get_received_messages", "Ok", NoMsg, 0,
                  Range(get_received_messages(mgr)))
  /\ UNCHANGED <<mgr, loopVars, extVars>>

AccessNext ==
  \/ SaveMessage
  \/ Rollback
  \/ TakeCheckpoint
  \/ GetSentMessages
  \/ GetReceivedMessages

AccessSpec == Init /\ [][AccessNext]_vars

\* ------------------------------- the manager, with what free removed
\* The checkpoints of cps that are no longer in kept.
RemovedFrom(cps, kept) == Range(cps) \ Range(kept)

\* free(ts), recording the checkpoints and messages it removed.
FreeTracked ==
  \E ts \in Timestamps :
    /\ mgr' = free(mgr, ts)
    /\ last' = Call("free", "Ok", NoMsg, ts, {})
    /\ freed' =
         [checkpoints |->
            freed.checkpoints
              \cup RemovedFrom(mgr.checkpoints, mgr'.checkpoints),
          messages |->
            freed.messages
              \cup RemovedFrom(mgr.received_messages, mgr'.received_messages)
              \cup RemovedFrom(mgr.sent_messages, mgr'.sent_messages)]
    /\ UNCHANGED <<loopVars, mutex, consumer, producers, local_senders,
                   network_sender, dvec>>

\* The messages saved while free is tracked: two received and two sent.
FreeMsgs ==
  {Msg(Other, Self, 0, 1, 7, "", FALSE),
   Msg(Other, Self, 0, 2, 7, "", FALSE),
   Msg(Self, Other, 0, MaxTs, 8, "p", FALSE),
   Msg(Self, Other, 2, MaxTs, 8, "p", FALSE)}

\* save_message of a message that was not freed before.
SaveOther ==
  /\ SaveMessage
  /\ last'.msg \in FreeMsgs \ freed.messages

FreeNext ==
  SaveOther \/ Rollback \/ FreeTracked \/ TakeCheckpoint \/ Update

FreeSpec == Init /\ [][FreeNext]_vars

\* ------------------------------------------ the MessageQueue on its own
\* MessageQueue::push of any of the input messages.
QPush ==
  \E msg \in QMsgs :
    /\ Len(queue) < MaxQueue
    /\ \E vec \in QueuePush(queue, msg) : queue' = vec
    /\ last' = Call("push", "Ok", msg, 0, {})
    /\ UNCHANGED <<mgr, current_state, received, pc, chan, net, posted, log,
                   annihilated, extVars>>

\* MessageQueue::pop: Some(message), or None on an empty vec.
QPop ==
  /\ IF queue = <<>>
     THEN /\ last' = Call("pop", "None", NoMsg, 0, {})
          /\ queue' = queue
     ELSE /\ last' = Call("pop", "Some", QueuePop(queue).msg, 0, {})
          /\ queue' = QueuePop(queue).vec
  /\ UNCHANGED <<mgr, current_state, received, pc, chan, net, posted, log,
                 annihilated, extVars>>

QueueNext == QPush \/ QPop

QueueSpec == Init /\ [][QueueNext]_vars

\* ------------------------------------ the thread-safe queue (MsgQueue)
\* The queue behind the Mutex: push with annihilation, pop of the smallest
\* exec_ts, size.
MsgQueueBase_push(vec, msg) == QueuePush(vec, msg)
MsgQueueBase_pop(vec) == QueuePop(vec)
MsgQueueBase_size(vec) == Len(vec)

\* Variant of PopBranch that never waits.
PopBranch_never_waits(vec) == "take"

\* MsgQueue::pop line 32: wait on an empty queue, else take.
PopBranch(vec) == IF MsgQueueBase_size(vec) = 0 THEN "wait" ELSE "take"

\* Variant of PushNotifies that never signals.
PushNotifies_never(vec) == FALSE

\* MsgQueue::push line 24: notify_one when the queue is not empty.
PushNotifies(vec) == MsgQueueBase_size(vec) > 0

\* MsgQueue::pop line 33: `let _ = self.cvar.wait(queue).unwrap();` drops
\* the guard wait returns at once, so the Mutex is unlocked before the
\* recursive call.
GuardAfterWait(holder) == "free"

\* What the threads of the queue leave alone.
syncOther ==
  <<mgr, last, current_state, pc, chan, net, freed, local_senders,
    network_sender, dvec>>

\* push line 22: the producer locks the Mutex.
PLock(p) ==
  /\ producers[p].pc = "idle"
  /\ producers[p].todo # <<>>
  /\ mutex = "free"
  /\ mutex' = p
  /\ producers' = [producers EXCEPT ![p].pc = "locked"]
  /\ UNCHANGED <<consumer, queue, posted, annihilated, log, received,
                 syncOther>>

\* push line 23: queue.push(msg) under the lock.
PPush(p) ==
  /\ producers[p].pc = "locked"
  /\ LET msg == Head(producers[p].todo)
         inv == FindInverse(queue, msg)
     IN /\ \E vec \in MsgQueueBase_push(queue, msg) : queue' = vec
        /\ posted' = posted \cup {msg}
        /\ annihilated' =
             IF inv # 0 THEN annihilated \cup {msg, queue[inv]}
             ELSE annihilated
  /\ producers' = [producers EXCEPT ![p].pc = "pushed"]
  /\ UNCHANGED <<mutex, consumer, log, received, syncOther>>

\* push lines 24-26: notify_one wakes the consumer when it waits.
PNotify(p) ==
  /\ producers[p].pc = "pushed"
  /\ consumer' =
       IF PushNotifies(queue) /\ consumer = "waiting" THEN "woken"
       ELSE consumer
  /\ producers' = [producers EXCEPT ![p].pc = "notified"]
  /\ UNCHANGED <<mutex, queue, posted, annihilated, log, received,
                 syncOther>>

\* push line 27: the guard is dropped when push returns.
PUnlock(p) ==
  /\ producers[p].pc = "notified"
  /\ mutex' = "free"
  /\ producers' =
       [producers EXCEPT ![p].pc = "idle", ![p].todo = Tail(@)]
  /\ UNCHANGED <<consumer, queue, posted, annihilated, log, received,
                 syncOther>>

ProducerStep(p) == PLock(p) \/ PPush(p) \/ PNotify(p) \/ PUnlock(p)

\* pop line 31: the consumer calls pop, or pop calls itself after a wait,
\* and locks the Mutex.
CLock ==
  /\ consumer \in {"idle", "retry"}
  /\ mutex = "free"
  /\ mutex' = "consumer"
  /\ consumer' = "locked"
  /\ UNCHANGED <<producers, queue, posted, annihilated, log, received,
                 syncOther>>

\* pop lines 32-37: on an empty queue wait, which unlocks the Mutex; else
\* unwrap what queue.pop() gives and return it, which drops the guard.
CCheck ==
  /\ consumer = "locked"
  /\ IF PopBranch(queue) = "wait"
     THEN /\ consumer' = "waiting"
          /\ mutex' = "free"
          /\ UNCHANGED <<queue, log, received>>
     ELSE IF MsgQueueBase_size(queue) = 0
     THEN /\ consumer' = "panicked"
          /\ mutex' = "free"
          /\ UNCHANGED <<queue, log, received>>
     ELSE /\ received' = MsgQueueBase_pop(queue).msg
          /\ queue' = MsgQueueBase_pop(queue).vec
          /\ log' = Append(log, received')
          /\ consumer' = "idle"
          /\ mutex' = "free"
  /\ UNCHANGED <<producers, posted, annihilated, syncOther>>

\* Condvar::wait may return without a notify.
CSpurious ==
  /\ consumer = "waiting"
  /\ consumer' = "woken"
  /\ UNCHANGED <<mutex, producers, queue, posted, annihilated, log,
                 received, syncOther>>

\* pop line 33: wait locks the Mutex again before it returns the guard.
CReacquire ==
  /\ consumer = "woken"
  /\ mutex = "free"
  /\ mutex' = "consumer"
  /\ consumer' = "reacquired"
  /\ UNCHANGED <<producers, queue, posted, annihilated, log, received,
                 syncOther>>

\* pop lines 33-34: the guard goes, then pop calls itself.
CDropGuard ==
  /\ consumer = "reacquired"
  /\ mutex' = GuardAfterWait(mutex)
  /\ consumer' = "retry"
  /\ UNCHANGED <<producers, queue, posted, annihilated, log, received,
                 syncOther>>

ConsumerStep == CLock \/ CCheck \/ CReacquire \/ CDropGuard

SyncNext ==
  \/ \E p \in Producers : ProducerStep(p)
  \/ ConsumerStep
  \/ CSpurious

SyncSpec == Init /\ [][SyncNext]_vars

\* Every thread that can take a step is scheduled in the end; a spurious
\* wake-up is never owed.
SyncFairSpec ==
  /\ SyncSpec
  /\ WF_vars(ConsumerStep)
  /\ \A p \in Producers : WF_vars(ProducerStep(p))

\* ------------------------------------------------------ the Messenger
messengerOther ==
  <<mgr, loopVars, freed, mutex, consumer, producers, dvec>>

Buffered ==
  Len(network_sender.buf)
    + Len(local_senders[Self].buf) + Len(local_senders[Other].buf)

TheMessenger ==
  [local_senders |-> local_senders, network_sender |-> network_sender]

\* A component or the rollback hands a message to Messenger::send.
MSend ==
  \E msg \in SentMsgs :
    LET r == send(TheMessenger, msg)
    IN  /\ Buffered < MaxSent
        /\ local_senders' = r.ms.local_senders
        /\ network_sender' = r.ms.network_sender
        /\ last' = Call("send", r.res, msg, 0, {})
        /\ UNCHANGED messengerOther

\* network.rs run_server hands a message from a peer to send_local.
MSendLocal ==
  \E msg \in SentMsgs :
    LET r == send_local(TheMessenger, msg)
    IN  /\ Buffered < MaxSent
        /\ local_senders' = r.ms.local_senders
        /\ network_sender' = r.ms.network_sender
        /\ last' = Call("send_local", r.res, msg, 0, {})
        /\ UNCHANGED messengerOther

\* network.rs run_client receives the next message and writes it to the
\* peer.
RunClientDelivers ==
  /\ network_sender.open /\ network_sender.buf # <<>>
  /\ network_sender' = [network_sender EXCEPT !.buf = Tail(@)]
  /\ last' = Call("run_client", "Ok", Head(network_sender.buf), 0, {})
  /\ UNCHANGED <<messengerOther, local_senders>>

\* network.rs run_client: an unwrap fails (no address for msg.to, connect
\* or write refused), the thread panics and its Receiver is dropped.
RunClientPanics ==
  /\ network_sender.open /\ network_sender.buf # <<>>
  /\ network_sender' = [buf |-> <<>>, open |-> FALSE]
  /\ last' = Call("run_client", "Panic", Head(network_sender.buf), 0, {})
  /\ UNCHANGED <<messengerOther, local_senders>>

\* run_comp_manager lines 19-23: the pump thread of a hosted component
\* receives the next message of its channel.
PumpReceives ==
  \E id \in Hosted :
    /\ local_senders[id].buf # <<>>
    /\ local_senders' = [local_senders EXCEPT ![id].buf = Tail(@)]
    /\ last' = Call("pump", "Ok", Head(local_senders[id].buf), 0, {})
    /\ UNCHANGED <<messengerOther, network_sender>>

MessengerNext ==
  \/ MSend
  \/ MSendLocal
  \/ RunClientDelivers
  \/ RunClientPanics
  \/ PumpReceives

MessengerSpec == Init /\ [][MessengerNext]_vars

\* ------------------------------------------------- the execution loop
LoopInit ==
  /\ mgr = new(Self, gateway_init.state)
  /\ last = Call("new", "Ok", NoMsg, 0, {})
  /\ LoopStart
  /\ ExtStart

\* Another component sends one of its messages; it reaches the channel of
\* this component (network.rs run_server, Messenger::send_local).
EnvSend ==
  \E msg \in Pool \ posted :
    /\ posted' = posted \cup {msg}
    /\ chan' = Append(chan, msg)
    /\ UNCHANGED <<mgr, last, current_state, received, pc, queue, net, log,
                   annihilated, extVars>>

\* Another component rolls back and retracts a message it sent earlier.
EnvRetract ==
  \E msg \in posted \cap Retractable :
    /\ MakeAnti(msg) \notin posted
    /\ posted' = posted \cup {MakeAnti(msg)}
    /\ chan' = Append(chan, MakeAnti(msg))
    /\ UNCHANGED <<mgr, last, current_state, received, pc, queue, net, log,
                   annihilated, extVars>>

\* run_comp_manager.rs lines 19-23: the thread that moves the messages of
\* the channel into the queue.
Pump ==
  /\ chan # <<>>
  /\ \E vec \in QueuePush(queue, Head(chan)) : queue' = vec
  /\ chan' = Tail(chan)
  /\ annihilated' =
       IF /\ Head(chan).is_anti
          /\ Head(chan) \in posted
          /\ \E i \in DOMAIN queue : is_inverse_of(Head(chan), queue[i])
       THEN annihilated \cup {Head(chan).id}
       ELSE annihilated
  /\ UNCHANGED <<mgr, last, current_state, received, pc, net, posted, log,
                 extVars>>

\* consume_msg_queue lines 25-33: pop, and roll back for a straggler.
LoopPop ==
  /\ pc = "pop"
  /\ queue # <<>>
  /\ Len(log) < MaxLog
  /\ received' = QueuePop(queue).msg
  /\ queue' = QueuePop(queue).vec
  /\ IF received'.exec_ts < mgr.lvt
     THEN LET r == rollback(mgr, received'.exec_ts)
          IN /\ mgr' = r.mgr
             /\ last' = Call("rollback", r.res, received', received'.exec_ts,
                             r.ret)
             /\ IF r.res = "Ok"
                THEN /\ pc' = "process"
                     /\ \E order \in IterationOrders(r.ret) :
                          LET ch == SendAll([chan |-> chan, net |-> net], order)
                          IN chan' = ch.chan /\ net' = ch.net
                ELSE /\ pc' = "dead"
                     /\ UNCHANGED <<chan, net>>
     ELSE /\ pc' = "process"
          /\ last' = Call("pop", "Ok", received', 0, {})
          /\ UNCHANGED <<mgr, chan, net>>
  /\ UNCHANGED <<current_state, posted, log, annihilated, extVars>>

\* Variant of MayCheckpoint that also lets the policy decide for a message
\* due exactly at lvt.
MayCheckpoint_ge(m, msg) == msg.exec_ts >= m.lvt

\* consume_msg_queue line 35: the policy is consulted only for a message
\* due after lvt.
MayCheckpoint(m, msg) == msg.exec_ts > m.lvt

\* consume_msg_queue lines 35-51 with the manager m1 left by the optional
\* take_checkpoint.
ProcessWith(m1) ==
  LET s == save_message(m1, received)
      g == on_message(current_state, received)
      u == update(s.mgr, g.state, received.exec_ts)
      o == SaveAndSend(u.mgr, [chan |-> chan, net |-> net], g.msgs)
  IN IF s.res # "Ok"
     THEN /\ mgr' = m1
          /\ pc' = "dead"
          /\ last' = Call("save_message", s.res, received, 0, {})
          /\ UNCHANGED <<current_state, chan, net, log>>
     ELSE IF u.res # "Ok"
     THEN /\ mgr' = s.mgr
          /\ pc' = "dead"
          /\ last' = Call("update", u.res, received, received.exec_ts, {})
          /\ log' = Append(log, received)
          /\ UNCHANGED <<current_state, chan, net>>
     ELSE /\ mgr' = o.mgr
          /\ last' = Call(IF o.ok THEN "on_message" ELSE "save_output",
                          o.res, received, received.exec_ts, Range(g.msgs))
          /\ current_state' = g.state
          /\ log' = Append(log, received)
          /\ chan' = o.ch.chan
          /\ net' = o.ch.net
          /\ pc' = IF o.ok THEN "pop" ELSE "dead"

\* consume_msg_queue lines 35-51: checkpoint when the policy says so, save
\* the message, run the gateway, update, save and send the outputs.
LoopProcess ==
  /\ pc = "process"
  /\ \E policy \in IF MayCheckpoint(mgr, received) THEN BOOLEAN ELSE {FALSE} :
       ProcessWith(IF policy THEN take_checkpoint(mgr) ELSE mgr)
  /\ UNCHANGED <<received, queue, posted, annihilated, extVars>>

LoopNext == EnvSend \/ EnvRetract \/ Pump \/ LoopPop \/ LoopProcess

LoopSpec == LoopInit /\ [][LoopNext]_vars

\* ------------------------------------------------- claims on the manager
\* The identity of a message: the fields is_inverse_of compares.
Ident(m) == <<m.from, m.to, m.id, m.sent_ts, m.exec_ts>>

\* The sub-sequence of the checkpoints taken at or before ts.
CheckpointsUpTo(cps, ts) ==
  LET AtOrBefore(c) == c.timestamp <= ts IN SelectSeq(cps, AtOrBefore)

\* The sub-sequence of the messages whose exec_ts lies before ts.
ExecBefore(msgs, ts) ==
  LET Before(x) == x.exec_ts < ts IN SelectSeq(msgs, Before)

\* The sub-sequence of the messages whose sent_ts lies before ts.
SentBefore(msgs, ts) ==
  LET Before(x) == x.sent_ts < ts IN SelectSeq(msgs, Before)

\* Everything but lvt and the checkpoint list is left alone by a step.
FrameOfTakeCheckpoint ==
  /\ mgr'.state = mgr.state
  /\ mgr'.id = mgr.id
  /\ mgr'.received_messages = mgr.received_messages
  /\ mgr'.sent_messages = mgr.sent_messages
  /\ Len(mgr'.checkpoints) = Len(mgr.checkpoints) + 1
  /\ SubSeq(mgr'.checkpoints, 1, Len(mgr.checkpoints)) = mgr.checkpoints

\* C4 as stated: take_checkpoint appends one checkpoint whose timestamp is
\* the lvt before the call and whose state is the current state, and leaves
\* lvt, state, id, the existing checkpoints and both lists unchanged.
C4_AsStated ==
  [][last'.op = "take_checkpoint" =>
       /\ FrameOfTakeCheckpoint
       /\ Last(mgr'.checkpoints) = Checkpoint(mgr.lvt, mgr.state)
       /\ mgr'.lvt = mgr.lvt]_vars

\* C4 amended: take_checkpoint first increments lvt by one and then appends
\* one checkpoint whose timestamp is the incremented lvt and whose state is
\* the current state; state, id, the existing checkpoints and both lists
\* are unchanged.
C4_TakeCheckpointIncrementsLvt ==
  [][last'.op = "take_checkpoint" =>
       /\ FrameOfTakeCheckpoint
       /\ Last(mgr'.checkpoints) = Checkpoint(mgr.lvt + 1, mgr.state)
       /\ mgr'.lvt = mgr.lvt + 1]_vars

C4_Witness ==
  /\ last.op = "take_checkpoint"
  /\ Len(mgr.checkpoints) >= 2
  /\ mgr.state # InitialState
  /\ mgr.received_messages # <<>>

C6_RollbackPartitionsReceived ==
  [][(last'.op = "rollback" /\ last'.res = "Ok") =>
       /\ mgr'.received_messages
            = ExecBefore(mgr.received_messages, last'.ts)
       /\ {x \in last'.ret : ~x.is_anti}
            = {x \in Range(mgr.received_messages) : x.exec_ts >= last'.ts}
       /\ (last'.ts = 0 => mgr'.received_messages = <<>>)]_vars

\* A rollback that kept one received message and returned another.
C6_Witness ==
  /\ last.op = "rollback"
  /\ last.res = "Ok"
  /\ mgr.received_messages # <<>>
  /\ \E x \in last.ret : ~x.is_anti /\ x.exec_ts >= last.ts

\* C7: after a successful rollback(t) sent_messages is the pre-call
\* sub-sequence with sent_ts < t, the anti-messages returned are exactly
\* the twins of the pre-call sent messages with sent_ts >= t, and nothing
\* else is returned besides the retracted received messages.
C7_RollbackRetractsSent ==
  [][(last'.op = "rollback" /\ last'.res = "Ok") =>
       /\ mgr'.sent_messages = SentBefore(mgr.sent_messages, last'.ts)
       /\ {Ident(x) : x \in {y \in last'.ret : y.is_anti}}
            = {Ident(x) : x \in {y \in Range(mgr.sent_messages) :
                                   y.sent_ts >= last'.ts}}
       /\ \A x \in last'.ret :
            \/ /\ x.is_anti
               /\ \E y \in Range(mgr.sent_messages) :
                    y.sent_ts >= last'.ts /\ is_inverse_of(x, y)
            \/ /\ ~x.is_anti
               /\ x \in Range(mgr.received_messages)
               /\ x.exec_ts >= last'.ts]_vars

\* A rollback that kept one sent message and returned the twin of another.
C7_Witness ==
  /\ last.op = "rollback"
  /\ last.res = "Ok"
  /\ mgr.sent_messages # <<>>
  /\ \E x \in last.ret : x.is_anti /\ x.sent_ts >= last.ts

\* C8 as stated: every anti-message returned by rollback or by get_anti has
\* an empty payload.
C8_AsStated ==
  (last.op \in {"rollback", "get_anti"})
    => \A x \in last.ret : x.is_anti => x.payload = ""

\* C8 amended: every anti-message returned by rollback or by get_anti is a
\* copy of its positive message with only is_anti changed; it carries the
\* payload of the positive message.
C8_AntiKeepsPayload ==
  [][/\ (last'.op = "rollback" /\ last'.res = "Ok") =>
          \A x \in last'.ret :
            x.is_anti =>
              \E y \in Range(mgr.sent_messages) :
                /\ ~y.is_anti
                /\ x = [y EXCEPT !.is_anti = TRUE]
     /\ (last'.op = "get_anti" /\ ~last'.msg.is_anti) =>
          /\ last'.res = "Ok"
          /\ last'.ret = {[last'.msg EXCEPT !.is_anti = TRUE]}]_vars

\* A rollback that returned the twin of a sent message with a payload.
C8_Witness ==
  /\ last.op = "rollback"
  /\ last.res = "Ok"
  /\ \E x \in last.ret : x.is_anti /\ x.payload # ""

\* C9: rollback(target) with target > lvt returns TimeViolation and leaves
\* the manager unchanged, also when no checkpoint lies at or before target.
C9_RollbackFutureIsTimeViolation ==
  [][(last'.op = "rollback" /\ last'.ts > mgr.lvt) =>
       /\ last'.res = "TimeViolation"
       /\ mgr' = mgr]_vars

\* A rollback into the future on a manager whose checkpoints were all freed.
C9_Witness ==
  /\ last.op = "rollback"
  /\ last.res = "TimeViolation"
  /\ last.ts > mgr.lvt
  /\ mgr.checkpoints = <<>>

\* C10: rollback(target) with target <= lvt returns InsufficientCheckpoints,
\* leaving the manager unchanged, exactly when the checkpoint list is empty
\* or its first checkpoint has timestamp > target.
C10_RollbackInsufficientCheckpoints ==
  [][(last'.op = "rollback" /\ last'.ts <= mgr.lvt) =>
       /\ (last'.res = "InsufficientCheckpoints")
            <=> (\/ mgr.checkpoints = <<>>
                 \/ mgr.checkpoints[1].timestamp > last'.ts)
       /\ (last'.res = "InsufficientCheckpoints" => mgr' = mgr)]_vars

\* A rollback refused because the first checkpoint left lies after target.
C10_Witness ==
  /\ last.op = "rollback"
  /\ last.res = "InsufficientCheckpoints"
  /\ mgr.checkpoints # <<>>
  /\ mgr.checkpoints[1].timestamp > last.ts
  /\ last.ts <= mgr.lvt

\* C11: save_message(m) returns InvalidMessage exactly when m is an
\* anti-message (also one from or to this component) or when neither m.from
\* nor m.to is the manager's id, and then the manager is unchanged.
C11_SaveMessageInvalid ==
  [][last'.op = "save_message" =>
       /\ (last'.res = "InvalidMessage")
            <=> (\/ last'.msg.is_anti
                 \/ (last'.msg.from # mgr.id /\ last'.msg.to # mgr.id))
       /\ (last'.res = "InvalidMessage" => mgr' = mgr)]_vars

\* An anti-message sent by this component was refused by a manager that
\* already holds a message.
C11_Witness ==
  /\ last.op = "save_message"
  /\ last.res = "InvalidMessage"
  /\ last.msg.is_anti
  /\ last.msg.from = mgr.id
  /\ mgr.sent_messages \o mgr.received_messages # <<>>

\* C12: save_message(m) of a positive m with m.from = id on a non-empty
\* sent_messages returns TimeViolation and leaves the manager unchanged when
\* the last sent message has sent_ts > m.sent_ts, and succeeds when it has
\* sent_ts <= m.sent_ts.
C12_SaveSentOrder ==
  [][(/\ last'.op = "save_message"
      /\ last'.msg.from = mgr.id
      /\ ~last'.msg.is_anti
      /\ mgr.sent_messages # <<>>)
     =>
     IF Last(mgr.sent_messages).sent_ts > last'.msg.sent_ts
     THEN last'.res = "TimeViolation" /\ mgr' = mgr
     ELSE last'.res = "Ok"]_vars

\* A sent message older than the last one saved was refused.
C12_Witness ==
  /\ last.op = "save_message"
  /\ last.res = "TimeViolation"
  /\ last.msg.from = mgr.id
  /\ mgr.sent_messages # <<>>
  /\ Last(mgr.sent_messages).sent_ts > last.msg.sent_ts

\* C13 as stated: save_message(m) of a positive m with m.to = id (a
\* self-addressed m included) on a non-empty received_messages whose last
\* message has exec_ts > m.exec_ts returns TimeViolation and leaves the
\* manager unchanged.
C13_AsStated ==
  [][(/\ last'.op = "save_message"
      /\ last'.msg.to = mgr.id
      /\ ~last'.msg.is_anti
      /\ mgr.received_messages # <<>>
      /\ Last(mgr.received_messages).exec_ts > last'.msg.exec_ts)
     =>
     /\ last'.res = "TimeViolation"
     /\ mgr' = mgr]_vars

\* C14: a successful save_message(m) appends m at the end of sent_messages
\* when m.from = id, and of received_messages when m.to = id and
\* m.from # id; state, lvt, id, the checkpoints and the other list are
\* unchanged.
C14_SaveAppendsToOneList ==
  [][(last'.op = "save_message" /\ last'.res = "Ok") =>
       /\ mgr'.state = mgr.state
       /\ mgr'.lvt = mgr.lvt
       /\ mgr'.id = mgr.id
       /\ mgr'.checkpoints = mgr.checkpoints
       /\ IF last'.msg.from = mgr.id
          THEN /\ mgr'.sent_messages = Append(mgr.sent_messages, last'.msg)
               /\ mgr'.received_messages = mgr.received_messages
          ELSE /\ last'.msg.to = mgr.id
               /\ mgr'.received_messages
                    = Append(mgr.received_messages, last'.msg)
               /\ mgr'.sent_messages = mgr.sent_messages]_vars

\* A self-addressed message was appended to sent_messages of a manager
\* that holds a received message.
C14_Witness ==
  /\ last.op = "save_message"
  /\ last.res = "Ok"
  /\ last.msg.from = mgr.id
  /\ last.msg.to = mgr.id
  /\ mgr.sent_messages # <<>>
  /\ Last(mgr.sent_messages) = last.msg
  /\ mgr.received_messages # <<>>

\* C15: update(s, t) returns TimeViolation and leaves the manager unchanged
\* exactly when t < lvt; otherwise (t = lvt included) it sets state to s and
\* lvt to t and leaves id, the checkpoints and both lists unchanged.
C15_UpdateChecksLvt ==
  [][last'.op = "update" =>
       IF last'.ts < mgr.lvt
       THEN last'.res = "TimeViolation" /\ mgr' = mgr
       ELSE /\ last'.res = "Ok"
            /\ last'.ret = {mgr'.state}
            /\ mgr'.lvt = last'.ts
            /\ mgr'.id = mgr.id
            /\ mgr'.checkpoints = mgr.checkpoints
            /\ mgr'.sent_messages = mgr.sent_messages
            /\ mgr'.received_messages = mgr.received_messages]_vars

\* An update at the timestamp of the checkpoint just taken (t = lvt) went
\* through and changed the state.
C15_Witness ==
  /\ last.op = "update"
  /\ last.res = "Ok"
  /\ Len(mgr.checkpoints) >= 2
  /\ Last(mgr.checkpoints).timestamp = last.ts
  /\ mgr.state # Last(mgr.checkpoints).state

\* The sub-sequence of the checkpoints taken after ts.
CheckpointsAfter(cps, ts) ==
  LET After(c) == c.timestamp > ts IN SelectSeq(cps, After)

\* The sub-sequence of the messages whose exec_ts lies after ts.
ExecAfter(msgs, ts) ==
  LET After(x) == x.exec_ts > ts IN SelectSeq(msgs, After)

\* The sub-sequence of the messages whose sent_ts lies after ts.
SentAfter(msgs, ts) ==
  LET After(x) == x.sent_ts > ts IN SelectSeq(msgs, After)

\* C16: free(ts) does not fail; it removes exactly the checkpoints with
\* timestamp <= ts, the received messages with exec_ts <= ts and the sent
\* messages with sent_ts <= ts, keeps the others in their order, and leaves
\* state, lvt and id unchanged.
C16_FreeRemovesUpTo ==
  [][last'.op = "free" =>
       /\ last'.res = "Ok"
       /\ mgr'.checkpoints = CheckpointsAfter(mgr.checkpoints, last'.ts)
       /\ mgr'.received_messages = ExecAfter(mgr.received_messages, last'.ts)
       /\ mgr'.sent_messages = SentAfter(mgr.sent_messages, last'.ts)
       /\ mgr'.state = mgr.state
       /\ mgr'.lvt = mgr.lvt
       /\ mgr'.id = mgr.id]_vars

\* A free that dropped the genesis checkpoint and kept a later checkpoint
\* and a later received message.
C16_Witness ==
  /\ last.op = "free"
  /\ mgr.checkpoints # <<>>
  /\ mgr.checkpoints[1].timestamp > last.ts
  /\ mgr.received_messages # <<>>
  /\ mgr.received_messages[1].exec_ts > last.ts

\* C17: the checkpoint list is always sorted strictly ascending by
\* timestamp; no two stored checkpoints share a timestamp, also after two
\* take_checkpoint calls with no update in between.
C17_CheckpointsStrictlyAscending ==
  \A i, j \in DOMAIN mgr.checkpoints :
    i < j => mgr.checkpoints[i].timestamp < mgr.checkpoints[j].timestamp

\* Two checkpoints of the same state taken one after the other, on top of
\* the genesis checkpoint.
C17_Witness ==
  /\ last.op = "take_checkpoint"
  /\ Len(mgr.checkpoints) >= 3
  /\ mgr.checkpoints[Len(mgr.checkpoints)].state
       = mgr.checkpoints[Len(mgr.checkpoints) - 1].state
  /\ mgr.checkpoints[Len(mgr.checkpoints)].timestamp
       = mgr.checkpoints[Len(mgr.checkpoints) - 1].timestamp + 1

\* C18 as stated: after construction the checkpoint list is never empty.
C18_AsStated == mgr.checkpoints # <<>>

\* C18 amended: a non-empty checkpoint list is emptied by no save_message,
\* take_checkpoint, update or rollback call, and by free(ts) exactly when
\* every stored checkpoint has timestamp <= ts.
C18_OnlyFreeEmptiesCheckpoints ==
  [][mgr.checkpoints # <<>> =>
       ((mgr'.checkpoints = <<>>)
          <=> (/\ last'.op = "free"
               /\ \A i \in DOMAIN mgr.checkpoints :
                    mgr.checkpoints[i].timestamp <= last'.ts))]_vars

\* A free at or above lvt left a manager that had advanced without any
\* checkpoint.
C18_Witness ==
  /\ last.op = "free"
  /\ mgr.checkpoints = <<>>
  /\ mgr.lvt > 0
  /\ last.ts >= mgr.lvt

\* C19: every stored checkpoint has timestamp <= lvt.
C19_CheckpointsNotAfterLvt ==
  \A i \in DOMAIN mgr.checkpoints : mgr.checkpoints[i].timestamp <= mgr.lvt

\* A rollback landed on a checkpoint other than the genesis one.
C19_Witness ==
  /\ last.op = "rollback"
  /\ last.res = "Ok"
  /\ Len(mgr.checkpoints) >= 2
  /\ Last(mgr.checkpoints).timestamp = mgr.lvt

\* C20: sent_messages is sorted non-decreasing by sent_ts and
\* received_messages is sorted non-decreasing by exec_ts.
C20_ListsSorted ==
  /\ \A i, j \in DOMAIN mgr.sent_messages :
       i < j => mgr.sent_messages[i].sent_ts <= mgr.sent_messages[j].sent_ts
  /\ \A i, j \in DOMAIN mgr.received_messages :
       i < j => mgr.received_messages[i].exec_ts
                  <= mgr.received_messages[j].exec_ts

\* A second received message with a later exec_ts was saved.
C20_Witness ==
  /\ last.op = "save_message"
  /\ last.res = "Ok"
  /\ Len(mgr.received_messages) >= 2
  /\ Last(mgr.received_messages) = last.msg
  /\ mgr.received_messages[1].exec_ts < last.msg.exec_ts

\* C21: no stored message is an anti-message, every sent message has
\* from = id and every received message has to = id.
C21_StoredMessagesWellFormed ==
  /\ \A i \in DOMAIN mgr.sent_messages :
       ~mgr.sent_messages[i].is_anti /\ mgr.sent_messages[i].from = mgr.id
  /\ \A i \in DOMAIN mgr.received_messages :
       /\ ~mgr.received_messages[i].is_anti
       /\ mgr.received_messages[i].to = mgr.id

\* A manager that holds a sent and a received message after a save.
C21_Witness ==
  /\ last.op = "save_message"
  /\ mgr.sent_messages # <<>>
  /\ mgr.received_messages # <<>>
  /\ Last(mgr.received_messages).from # mgr.id

\* C22: new(id, s0) yields state = s0, lvt = 0, the one checkpoint
\* {timestamp: 0, state: s0} and two empty message lists.
C22_NewInstallsGenesis ==
  last.op = "new" =>
    /\ mgr.id = Self
    /\ mgr.state = InitialState
    /\ mgr.lvt = 0
    /\ mgr.checkpoints = <<[timestamp |-> 0, state |-> InitialState]>>
    /\ mgr.sent_messages = <<>>
    /\ mgr.received_messages = <<>>

\* The manager right after construction.
C22_Witness ==
  /\ last.op = "new"
  /\ Len(mgr.checkpoints) = 1

C24_FreedNeverReappears ==
  /\ Range(mgr.checkpoints) \cap freed.checkpoints = {}
  /\ Range(mgr.sent_messages) \cap freed.messages = {}
  /\ Range(mgr.received_messages) \cap freed.messages = {}
  /\ last.op = "rollback" =>
       \A x \in last.ret : [x EXCEPT !.is_anti = FALSE] \notin freed.messages

\* After a free dropped a checkpoint and a message, a new checkpoint was
\* taken and a rollback retracted a message saved later.
C24_Witness ==
  /\ freed.checkpoints # {}
  /\ freed.messages # {}
  /\ last.op = "rollback"
  /\ last.res = "Ok"
  /\ last.ret # {}
  /\ mgr.checkpoints # <<>>

\* --------------------------------------------- claims on the MessageQueue
\* The multiset of the elements of a sequence.
SeqBag(sq) ==
  [x \in Range(sq) |-> Cardinality({i \in DOMAIN sq : sq[i] = x})]

\* The vecs push(a) followed by push(b) may leave.
PushPush(vec, a, b) ==
  UNION {QueuePush(v1, b) : v1 \in QueuePush(vec, a)}

\* C25 as stated: for the queue at hand and every positive message m,
\* push(m); push(anti(m)) and push(anti(m)); push(m) both leave the queue
\* with the multiset of messages and the size it had before.
C25_AsStated ==
  \A m \in QPositive :
    \A v \in PushPush(queue, m, MakeAnti(m))
             \cup PushPush(queue, MakeAnti(m), m) :
      /\ Len(v) = Len(queue)
      /\ SeqBag(v) = SeqBag(queue)

\* The vec lists its messages by descending exec_ts, so that the last one
\* has the smallest.
QueueOrdered(vec) ==
  \A i, j \in DOMAIN vec : i < j => vec[i].exec_ts >= vec[j].exec_ts

\* C26: pop removes and returns a message whose exec_ts is the smallest in
\* the queue and leaves the others; two pops with no push in between
\* return messages in non-decreasing exec_ts.
C26_PopReturnsSmallest ==
  [][(last'.op = "pop" /\ queue # <<>>) =>
       /\ last'.res = "Some"
       /\ \A i \in DOMAIN queue : last'.msg.exec_ts <= queue[i].exec_ts
       /\ \E i \in DOMAIN queue :
            queue[i] = last'.msg /\ queue' = RemoveAt(queue, i)
       /\ (last.op = "pop" /\ last.res = "Some")
            => last.msg.exec_ts <= last'.msg.exec_ts]_vars

\* A second pop in a row returned a later message than the first and left a
\* message behind.
C26_Witness ==
  /\ last.op = "pop"
  /\ last.res = "Some"
  /\ queue # <<>>
  /\ last.msg.exec_ts < Last(queue).exec_ts

\* C27: push(m) removes exactly one inverse of m and does not insert m when
\* the queue holds an inverse; otherwise it inserts m; all other elements
\* are kept and the vec stays ordered by exec_ts.
C27_PushAnnihilatesOrInserts ==
  [][last'.op = "push" =>
       /\ IF \E i \in DOMAIN queue : is_inverse_of(last'.msg, queue[i])
          THEN \E i \in DOMAIN queue :
                 /\ is_inverse_of(last'.msg, queue[i])
                 /\ queue' = RemoveAt(queue, i)
          ELSE \E i \in 1 .. Len(queue) + 1 :
                 queue' = InsertAt(queue, i, last'.msg)
       /\ QueueOrdered(queue')]_vars

\* A push that met its inverse: the message pushed is not in the queue, the
\* others are.
C27_Witness ==
  /\ last.op = "push"
  /\ last.msg \notin Range(queue)
  /\ queue # <<>>

\* ------------------------------------------------- claims on MsgQueue
\* C28: pop neither returns nor panics on an empty queue; each message it
\* returns is the one with the smallest exec_ts of the non-empty queue, was
\* pushed and did not annihilate, and no message is returned twice.
C28_PopReturnsQueuedMessages ==
  [][/\ consumer' # "panicked"
     /\ log' # log =>
          /\ queue # <<>>
          /\ mutex = "consumer"
          /\ Last(log') = Last(queue)
          /\ queue' = Front(queue)
          /\ Last(log') \in posted \ annihilated
          /\ Last(log') \notin Range(log)]_vars

\* The consumer waits again after it returned two messages, while another
\* message and its anti-message have annihilated.
C28_Witness ==
  /\ consumer = "waiting"
  /\ Len(log) >= 2
  /\ annihilated # {}
  /\ queue = <<>>

\* C29 as stated: a consumer that waits in pop returns a message once a
\* push has left the queue non-empty.
C29_AsStated ==
  (consumer = "waiting" /\ queue # <<>>) ~> (consumer = "idle")

\* C29 amended: a consumer that waits in pop while a push has left the
\* queue non-empty is woken and returns a message, unless a later push
\* annihilates what is queued and leaves the queue empty again before the
\* consumer holds the Mutex; it never stays blocked on a non-empty queue.
C29_NoLostWakeUp ==
  (consumer = "waiting" /\ queue # <<>>)
    ~> (consumer = "idle" \/ queue = <<>>)

\* The consumer was woken, dropped the guard and is about to lock the Mutex
\* again on a non-empty queue.
C29_Witness ==
  /\ consumer = "retry"
  /\ mutex = "free"
  /\ queue # <<>>

\* C36 as stated: any two distinct messages the Translator produced for
\* the component with the same sent_ts carry different ids.
C36_AsStated ==
  \A a, b \in Range(chan) \cup Range(net) :
    (a # b /\ a.from = b.from /\ a.sent_ts = b.sent_ts) => a.id # b.id

\* The received vector of the last update call.
Received ==
  [id \in {e[1] : e \in last'.ret} |->
     CHOOSE t \in Timestamps : <<id, t>> \in last'.ret]

C38_NoMessageWithItsInverse ==
  \A i, j \in DOMAIN queue : ~is_inverse_of(queue[i], queue[j])

\* After pushes and a pop the queue holds a positive message next to the
\* anti-message of another one.
C38_Witness ==
  /\ last.op = "pop"
  /\ \E i, j \in DOMAIN queue : queue[i].is_anti /\ ~queue[j].is_anti

\* C40: rollback never reaches the panic!() of its checkpoint-dropping
\* loop; for every manager state, an empty checkpoint list after free
\* included, and every target it returns Ok or a Failure.
C40_RollbackNeverPanics ==
  last.op = "rollback" =>
    last.res \in {"Ok", "TimeViolation", "InsufficientCheckpoints"}

\* rollback was called on a manager whose checkpoints free had all removed.
C40_Witness ==
  /\ last.op = "rollback"
  /\ last.res = "InsufficientCheckpoints"
  /\ mgr.checkpoints = <<>>
  /\ last.ts <= mgr.lvt

\* --------------------------------- claims on the manager's accessors
\* C39 as stated: get_received_messages returns the received_messages list
\* and get_sent_messages the sent_messages list, in every reachable state.
C39_AsStated ==
  /\ last.op = "get_received_messages" =>
       last.ret = Range(mgr.received_messages)
  /\ last.op = "get_sent_messages" => last.ret = Range(mgr.sent_messages)

\* ------------------------------------------------ claims on the Messenger
\* The sinks of the Messenger: one local channel per hosted component and
\* the network channel.
LocalSink(id) == <<"local", id>>
NetworkSink == <<"network">>

SinksGained(msg) ==
  {LocalSink(id) : id \in
     {h \in Hosted :
        local_senders'[h].buf = Append(local_senders[h].buf, msg)}}
    \cup (IF network_sender'.buf = Append(network_sender.buf, msg)
          THEN {NetworkSink} ELSE {})

SinksTouched ==
  {LocalSink(id) : id \in
     {h \in Hosted : local_senders'[h] # local_senders[h]}}
    \cup (IF network_sender' # network_sender THEN {NetworkSink} ELSE {})

SinkOf(msg) == IF msg.to \in Hosted THEN LocalSink(msg.to) ELSE NetworkSink

SendLocalAsStated ==
  last'.op = "send_local" =>
    /\ network_sender' = network_sender
    /\ last'.msg.to \notin Hosted =>
         last'.res = "Err" /\ SinksTouched = {}

\* The statement of C30 as written: every send hands the message to exactly
\* one sink, the local channel of msg.to or else the network.
C30_AsStated ==
  [][/\ last'.op = "send" =>
          /\ SinksGained(last'.msg) = {SinkOf(last'.msg)}
          /\ SinksTouched = {SinkOf(last'.msg)}
     /\ SendLocalAsStated]_vars

\* C30: send(m) hands m to at most one sink, the local channel of m.to when
\* m.to is hosted here and the network channel otherwise; it hands m to that
\* sink and returns Ok while the sink's receiver is alive, and else returns
\* an error with nothing enqueued.  send_local(m) never hands m to the
\* network and returns an error with nothing enqueued when m.to is not
\* hosted here.
C30_SendRoutesToOneSink ==
  [][/\ last'.op = "send" =>
          LET sink == SinkOf(last'.msg)
              alive == IF last'.msg.to \in Hosted
                       THEN local_senders[last'.msg.to].open
                       ELSE network_sender.open
          IN  IF alive
              THEN /\ last'.res = "Ok"
                   /\ SinksGained(last'.msg) = {sink}
                   /\ SinksTouched = {sink}
              ELSE /\ last'.res = "Err"
                   /\ SinksTouched = {}
     /\ SendLocalAsStated]_vars

C30_Witness ==
  /\ last.op = "send" /\ last.res = "Err" /\ last.msg.to = Third
  /\ ~network_sender.open
  /\ local_senders[Self].buf # <<>>

\* ------------------------------------------- claims on the execution loop
\* The loop waits in pop, its queue is drained and nothing is in flight.
Quiescent == pc = "pop" /\ queue = <<>> /\ chan = <<>>

\* The positive messages other components sent and did not retract.
Standing == {m \in posted : ~m.is_anti /\ MakeAnti(m) \notin posted}

\* The states a component reaches when it is given the pending messages,
\* and the messages it sends to itself, one at a time in non-decreasing
\* exec_ts order, starting in state.
RECURSIVE InOrderStates(_, _)
InOrderStates(pending, state) ==
  IF pending = {} THEN {state}
  ELSE UNION {
         LET r == on_message(state, m)
         IN InOrderStates((pending \ {m})
                            \cup {x \in Range(r.msgs) : x.to = Self},
                          r.state)
         : m \in {x \in pending : \A y \in pending : x.exec_ts <= y.exec_ts}}

\* C1 as stated: whenever the queue is drained and nothing is in flight, the
\* component's state is the one reached by applying on_message from the
\* initial state to the positive, non-annihilated messages it received, in
\* some order that is non-decreasing in exec_ts.
C1_AsStated ==
  Quiescent => current_state \in InOrderStates(Standing, gateway_init.state)

\* C2 as stated, in the part a finite run refutes: an anti-message whose
\* positive twin the loop has already processed does not terminate the
\* loop.
C2_AsStated ==
  \A i \in DOMAIN log :
    (received.is_anti /\ is_inverse_of(received, log[i])) => pc # "dead"

\* C3: once an anti-message pushed into the queue met its positive twin
\* there, neither of the two is returned by pop (so the loop does not roll
\* back for them) or handed to the gateway.
C3_AnnihilatedPairVanishes ==
  [][/\ (pc = "pop" /\ pc' # "pop") => received'.id \notin annihilated
     /\ (log' # log) => Last(log').id \notin annihilated]_vars

\* A retracted message met its twin in the queue without ever being
\* processed, and the loop went on to process another message.
C3_Witness ==
  /\ annihilated # {}
  /\ Quiescent
  /\ log # <<>>
  /\ \A i \in DOMAIN log : log[i].id \notin annihilated

\* What a step appended to a channel.
Suffix(after, before) == SubSeq(after, Len(before) + 1, Len(after))

C32_AsStated ==
  [][(pc = "process" /\ last.op = "rollback" /\ log' # log) =>
       current_state' = on_message(mgr.state, received).state]_vars

\* C33: take_checkpoint is called only after the message was popped (and
\* after any rollback) and before the message is saved, only for a message
\* with exec_ts greater than lvt, never for one with exec_ts <= lvt, and
\* the update that follows does not fail because of it.
C33_CheckpointOnlyBeforeLaterMessage ==
  [][/\ Len(mgr'.checkpoints) > Len(mgr.checkpoints) =>
          /\ pc = "process"
          /\ received.exec_ts > mgr.lvt
          /\ Len(mgr'.checkpoints) = Len(mgr.checkpoints) + 1
          /\ Last(mgr'.checkpoints) = Checkpoint(mgr.lvt + 1, mgr.state)
          /\ Last(mgr'.checkpoints).timestamp <= received.exec_ts
          /\ last'.op # "update"
     /\ (pc = "process" /\ received.exec_ts <= mgr.lvt) =>
          Len(mgr'.checkpoints) <= Len(mgr.checkpoints)
     /\ (pc = "process" /\ pc' = "dead") => last'.op # "update"]_vars

\* The loop took a checkpoint before it saved a message and went through
\* the whole iteration.
C33_Witness ==
  /\ pc = "pop" /\ last.op = "on_message"
  /\ Len(mgr.checkpoints) >= 2
  /\ Last(mgr.checkpoints).timestamp <= mgr.lvt
  /\ Last(log) = last.msg

\* C34: each time the loop is about to pop, lvt equals the exec_ts of the
\* message processed last and no message in received_messages has a larger
\* exec_ts.
C34_LvtIsLastProcessed ==
  (pc = "pop" /\ log # <<>>) =>
    /\ mgr.lvt = Last(log).exec_ts
    /\ \A i \in DOMAIN mgr.received_messages :
         mgr.received_messages[i].exec_ts <= mgr.lvt

\* The loop processed a straggler after a later message and is about to
\* pop again.
C34_Witness ==
  /\ pc = "pop" /\ Len(log) >= 2
  /\ \E i \in DOMAIN log : log[i].exec_ts > Last(log).exec_ts
  /\ mgr.received_messages # <<>>
  /\ ~Last(log).is_anti /\ Last(log).from # Self

\* C35 as stated: no rollback, save_message or update call made by the
\* loop returns a Failure.
C35_AsStated ==
  last.res \notin {"TimeViolation", "InsufficientCheckpoints", "InvalidMessage"}

====
